---- MODULE Spec2Model ----
(***************************************************************************)
(* Model of the realtime SIP agent (src/server.js): the POST / webhook     *)
(* handler, the accept handshake, the delayed WebSocket connect and the    *)
(* per-stream event handlers with the function-call dispatcher.            *)
(*                                                                         *)
(* Every await of the source is a suspension point, so a handler is cut    *)
(* into one action per segment between awaits.  External parties (the      *)
(* webhook sender, the accept endpoint, the remote end of the WebSocket)   *)
(* are inputs chosen with \E from the small sets below.                    *)
(***************************************************************************)
EXTENDS Integers, Sequences, FiniteSets, TLC

\* ---------------------------------------------------------------- bounds
\* Number of webhook requests the model lets arrive.
MaxRequests == 2
\* Number of frames the remote side delivers over all streams.
MaxFrames == 2

\* ------------------------------------------------------------- JS values
\* The JavaScript value undefined (a missing field).
Undefined == "<undefined>"

\* String(v) as template literals and encodeURIComponent apply it.
JsString(v) == IF v = Undefined THEN "undefined" ELSE v

\* encodeURIComponent on the identifiers of the model: reserved characters
\* are percent-encoded, undefined is first converted to "undefined".
EncodeURIComponent(v) ==
  CASE v = "a/b c" -> "a%2Fb%20c"
    [] OTHER       -> JsString(v)

OPENAI_API_KEY == "sk-test"

\* ------------------------------------------------------- webhook inputs
Requests == 1..MaxRequests

EventTypes == {"realtime.call.incoming", "realtime.call.ended", "unknown.event"}

\* data.call_id of a webhook event, possibly missing.
CallIds == {"a/b c"}

\* What client.webhooks.unwrap resolves to: the verified, decoded event.
WebhookEvents ==
  [type : {"realtime.call.incoming"}, call_id : CallIds \cup {Undefined}]
    \cup [type : EventTypes \ {"realtime.call.incoming"}, call_id : {Undefined}]

\* Errors an awaited call of the handler can throw.  sig: thrown by the
\* signature check; the others by anything else.
SignatureErrors ==
  { [name |-> "InvalidWebhookSignatureError",
     message |-> "The given webhook signature does not match the expected signature"],
    [name |-> "Error", message |-> "Invalid signature"] }

UnwrapOtherErrors ==
  { [name |-> "SyntaxError", message |-> "Unexpected token in JSON"] }

FetchErrors ==
  { [name |-> "FetchError", message |-> "network timeout"],
    [name |-> "FetchError", message |-> "upstream said: invalid signature"] }

\* Responses of the accept endpoint: status and the ok flag (2xx).
AcceptResponses ==
  { [ok |-> TRUE, status |-> 200],
    [ok |-> FALSE, status |-> 404],
    [ok |-> FALSE, status |-> 500] }

\* Placeholders for "not yet known" in the per-request bookkeeping.
NoError == [name |-> Undefined, message |-> Undefined]
NoResponse == [ok |-> FALSE, status |-> 0]
NoEvent == [type |-> Undefined, call_id |-> Undefined]

\* ------------------------------------------------------- stream inputs
\* The function_call items the remote side sends.  Between them they cover:
\* an implemented tool (both of them), an unknown tool name, a missing
\* name; only an id, an id and a different call_id, only a call_id,
\* neither; arguments that are valid JSON, malformed, missing.  Two of
\* them share the id "fc1", and any of them can be sent twice.
FunctionCallItems ==
  { [type |-> "function_call", id |-> "fc1", call_id |-> Undefined,
     name |-> "get_current_time", arguments |-> "{}"],
    [type |-> "function_call", id |-> "fc2", call_id |-> "call_9",
     name |-> "get_random_number", arguments |-> Undefined],
    [type |-> "function_call", id |-> "fc1", call_id |-> Undefined,
     name |-> "unknown_tool", arguments |-> "{\"n\":1}"],
    [type |-> "function_call", id |-> Undefined, call_id |-> "call_9",
     name |-> Undefined, arguments |-> "{bad"],
    [type |-> "function_call", id |-> Undefined, call_id |-> Undefined,
     name |-> "get_current_time", arguments |-> "{bad"],
    [type |-> "function_call", id |-> "fc3", call_id |-> Undefined,
     name |-> "get_current_time", arguments |-> "{bad"] }

NoItem ==
  [type |-> Undefined, id |-> Undefined, call_id |-> Undefined,
   name |-> Undefined, arguments |-> Undefined]

\* Frames the remote side can deliver: text that is not JSON, events of
\* other types, created items that are not function calls (a message, the
\* call of a built-in tool), and function call requests.
Frames ==
  { [json |-> FALSE, type |-> Undefined, item |-> NoItem],
    [json |-> TRUE, type |-> "response.done", item |-> NoItem],
    [json |-> TRUE, type |-> "response.done",
     item |-> [NoItem EXCEPT !.type = "function_call", !.id = "fc1",
                             !.name = "get_current_time"]],
    [json |-> TRUE, type |-> "conversation.item.created",
     item |-> [NoItem EXCEPT !.type = "message", !.id = "fc1"]],
    [json |-> TRUE, type |-> "conversation.item.created",
     item |-> [NoItem EXCEPT !.type = "web_search_call", !.id = "fc1"]] }
    \cup { [json |-> TRUE, type |-> "conversation.item.created", item |-> i] :
             i \in FunctionCallItems }

\* ---------------------------------------------------------------- state
VARIABLES
  pc,             \* per request: position of the POST / handler
  event,          \* per request: the event unwrap returned (NoEvent before)
  thrown,         \* per request: the error the catch block received
  acceptRequests, \* per request: the accept requests sent with fetch
  acceptResp,     \* per request: the response fetch resolved with
  resHeaders,     \* per request: headers set on res with res.set
  responses,      \* per request: the HTTP responses sent on res
  timers,         \* per request: the connect timers its handler armed
  streams,        \* per request: the WebSockets its timers created
  frames,         \* number of frames the remote side has delivered
  vpc,            \* variants, per request: the program handling it, its position
  vcallId,        \* variants, per request: data.call_id of its event
  vaccept,        \* variants, per request: what the accept request returned
  vres,           \* variants, per request: the HTTP responses sent on res
  vtimers,        \* variants, per request: the connect timers its handler armed
  vstreams,       \* variants, per request: the WebSockets its timers created
  env,            \* part_004: process.env as the module read it at load
  tools           \* part_004: the tools array (empty until the module is loaded)

hookVars == <<pc, event, thrown, acceptRequests, acceptResp, resHeaders, responses>>
\* The state of the programs under src/unnamed, which src/server.js never
\* touches.
variantVars == <<vpc, vcallId, vaccept, vres, vtimers, vstreams>>
builderVars == <<env, tools>>
otherVars == <<variantVars, builderVars>>
serverVars == <<hookVars, timers, streams, frames>>
vars == <<pc, event, thrown, acceptRequests, acceptResp, resHeaders, responses,
          timers, streams, frames, otherVars>>

\* What a variant reads from the body of the accept response: ws_url and
\* client_secret.value, each missing, empty or present.
AcceptDatas ==
  [ws_url : {Undefined, "", "wss://sip.example/v1/call"},
   secret : {Undefined, "", "ek_123"}]

NoAccept == [ok |-> FALSE, data |-> [ws_url |-> Undefined, secret |-> Undefined]]

Init ==
  /\ pc = [r \in Requests |-> "idle"]
  /\ event = [r \in Requests |-> NoEvent]
  /\ thrown = [r \in Requests |-> NoError]
  /\ acceptRequests = [r \in Requests |-> <<>>]
  /\ acceptResp = [r \in Requests |-> NoResponse]
  /\ resHeaders = [r \in Requests |-> {}]
  /\ responses = [r \in Requests |-> <<>>]
  /\ timers = [r \in Requests |-> <<>>]
  /\ streams = [r \in Requests |-> <<>>]
  /\ frames = 0
  /\ vpc = [r \in Requests |-> [program |-> Undefined, at |-> "idle"]]
  /\ vcallId = [r \in Requests |-> Undefined]
  /\ vaccept = [r \in Requests |-> NoAccept]
  /\ vres = [r \in Requests |-> <<>>]
  /\ vtimers = [r \in Requests |-> <<>>]
  /\ vstreams = [r \in Requests |-> <<>>]
  /\ env = <<>>
  /\ tools = <<>>

\* ------------------------------------------------------- POST / handler
\* String.prototype.toLowerCase on the strings of the model: the error
\* messages, and the values of WEB_SEARCH_ENABLED in src/unnamed/part_004.
ToLowerCase(m) ==
  CASE m = "Invalid signature" -> "invalid signature"
    [] m = "TRUE" -> "true"
    [] m = "The given webhook signature does not match the expected signature"
         -> "the given webhook signature does not match the expected signature"
    [] m = "Unexpected token in JSON" -> "unexpected token in json"
    [] OTHER -> m

\* lowercased.includes('invalid signature')
IncludesInvalidSignature(m) ==
  m \in {"invalid signature", "upstream said: invalid signature"}

\* Mutant of IsSignatureError: the error is recognised by its name only.
IsSignatureError_NameOnly(err) == err.name = "InvalidWebhookSignatureError"

\* The test of the catch block that selects the 400 response.
IsSignatureError(err) ==
  \/ err.name = "InvalidWebhookSignatureError"
  \/ IncludesInvalidSignature(ToLowerCase(err.message))

\* res.status(s).send(b) / res.sendStatus(s): the response as sent, with
\* the headers set on res so far.
Response(status, body, headers) ==
  [status |-> status, body |-> body, headers |-> headers]

\* The catch block: what the handler responds for a thrown error.
CatchResponse(r, err) ==
  IF IsSignatureError(err)
    THEN Response(400, "Invalid signature", resHeaders[r])
    ELSE Response(500, "Server error", resHeaders[r])

\* Mutant of AcceptFailedResponse: another status and body.
AcceptFailedResponse_BadGateway(r) == Response(502, "Accept failed", resHeaders[r])

\* The response to a non-ok accept response.
AcceptFailedResponse(r) == Response(500, "Call accept failed", resHeaders[r])

\* The URL of the accept request for a call identifier.
AcceptUrl(callId) ==
  "https://api.openai.com/v1/realtime/calls/" \o EncodeURIComponent(callId) \o "/accept"

\* The stream URL the handler builds for a call identifier.
WssUrl(callId) ==
  "wss://api.openai.com/v1/realtime?call_id=" \o EncodeURIComponent(callId)

\* The delay the handler passes to connectWithDelay, and its default.
ConnectDelayArg == 0
DefaultDelay == 1000

\* connectWithDelay(sipWssUrl, delay) called by the handler of request r:
\* arms one timer.
ConnectWithDelay(sipWssUrl, delay, r) ==
  Append(timers[r], [uri |-> sipWssUrl, delay |-> delay, fired |-> FALSE])

\* A request arrives; the handler reads the raw body and awaits unwrap.
Post(r) ==
  /\ pc[r] = "idle"
  /\ IF r = 1 THEN TRUE ELSE pc[r - 1] # "idle"
  /\ pc' = [pc EXCEPT ![r] = "unwrap"]
  /\ UNCHANGED <<otherVars, event, thrown, acceptRequests, acceptResp, resHeaders, responses,
                 timers, streams, frames>>

\* Mutant of AcceptOnEvent: the accept request is sent a second time.
AcceptOnEvent_Resent(r, ev) ==
  LET req == [url |-> AcceptUrl(ev.call_id), method |-> "POST",
              authorization |-> "Bearer " \o OPENAI_API_KEY]
  IN  IF ev.type = "realtime.call.incoming"
        THEN acceptRequests[r] \o <<req, req>>
        ELSE acceptRequests[r]

\* Mutant of AcceptOnEvent: the type of the event is not tested.
AcceptOnEvent_EveryType(r, ev) ==
  Append(acceptRequests[r],
         [url |-> AcceptUrl(ev.call_id), method |-> "POST",
          authorization |-> "Bearer " \o OPENAI_API_KEY])

\* The accept requests the handler sends once unwrap has returned ev.
AcceptOnEvent(r, ev) ==
  IF ev.type = "realtime.call.incoming"
    THEN Append(acceptRequests[r],
                [url |-> AcceptUrl(ev.call_id), method |-> "POST",
                 authorization |-> "Bearer " \o OPENAI_API_KEY])
    ELSE acceptRequests[r]

\* Mutant of ResponsesOnEvent: every verified event is acknowledged at
\* once, an incoming call before its accept request has returned.
ResponsesOnEvent_AckFirst(r, ev) ==
  Append(responses[r], Response(200, "OK", resHeaders[r]))

\* The responses sent once unwrap has returned ev: none yet for an incoming
\* call (the handler awaits fetch), sendStatus(200) for any other type.
ResponsesOnEvent(r, ev) ==
  IF ev.type = "realtime.call.incoming"
    THEN responses[r]
    ELSE Append(responses[r], Response(200, "OK", resHeaders[r]))

\* unwrap returns the verified event: an incoming call sends the accept
\* request and awaits it, any other type is acknowledged with 200.
UnwrapResolves(r, ev) ==
  /\ pc[r] = "unwrap"
  /\ event' = [event EXCEPT ![r] = ev]
  /\ acceptRequests' = [acceptRequests EXCEPT ![r] = AcceptOnEvent(r, ev)]
  /\ responses' = [responses EXCEPT ![r] = ResponsesOnEvent(r, ev)]
  /\ pc' = [pc EXCEPT ![r] =
              IF ev.type = "realtime.call.incoming" THEN "fetch" ELSE "done"]
  /\ UNCHANGED <<otherVars, thrown, acceptResp, resHeaders, timers, streams, frames>>

\* An awaited call of the try block throws err: the catch block responds.
Catch(r, err) ==
  /\ thrown' = [thrown EXCEPT ![r] = err]
  /\ responses' = [responses EXCEPT ![r] = Append(@, CatchResponse(r, err))]
  /\ pc' = [pc EXCEPT ![r] = "done"]
  /\ UNCHANGED <<otherVars, event, acceptRequests, acceptResp, resHeaders, timers, streams, frames>>

\* unwrap throws: a signature failure or any other error.
UnwrapThrows(r, err) ==
  /\ pc[r] = "unwrap"
  /\ Catch(r, err)

\* Mutant of TimersOnAccept: the connect timer is armed whatever the status.
TimersOnAccept_Always(r, resp) ==
  ConnectWithDelay(WssUrl(event[r].call_id), ConnectDelayArg, r)

\* The timers after fetch has resolved with resp.
TimersOnAccept(r, resp) ==
  IF resp.ok
    THEN ConnectWithDelay(WssUrl(event[r].call_id), ConnectDelayArg, r)
    ELSE timers[r]

\* Mutant of HeadersOnAccept: the header is never set.
HeadersOnAccept_NoHeader(r, resp) == resHeaders[r]

\* The headers of res after fetch has resolved with resp.
HeadersOnAccept(r, resp) ==
  IF resp.ok
    THEN resHeaders[r] \cup {<<"Authorization", "Bearer " \o OPENAI_API_KEY>>}
    ELSE resHeaders[r]

\* Mutant of FetchResolves: after an ok accept the handler arms the timer
\* and holds the response back for the stream.
FetchResolves_AwaitsStream(r, resp) ==
  /\ pc[r] = "fetch"
  /\ acceptResp' = [acceptResp EXCEPT ![r] = resp]
  /\ timers' = [timers EXCEPT ![r] = TimersOnAccept(r, resp)]
  /\ resHeaders' = [resHeaders EXCEPT ![r] = HeadersOnAccept(r, resp)]
  /\ pc' = [pc EXCEPT ![r] = IF resp.ok THEN "done" ELSE "text"]
  /\ UNCHANGED <<otherVars, event, thrown, acceptRequests, responses, streams, frames>>

\* fetch resolves: a non-ok response goes on to read the body text, an ok
\* one arms the connect timer, sets the header and responds 200.
FetchResolves(r, resp) ==
  /\ pc[r] = "fetch"
  /\ acceptResp' = [acceptResp EXCEPT ![r] = resp]
  /\ timers' = [timers EXCEPT ![r] = TimersOnAccept(r, resp)]
  /\ resHeaders' = [resHeaders EXCEPT ![r] = HeadersOnAccept(r, resp)]
  /\ IF resp.ok
       THEN /\ pc' = [pc EXCEPT ![r] = "done"]
            /\ responses' = [responses EXCEPT ![r] = Append(@, Response(200, "OK", resHeaders'[r]))]
       ELSE /\ pc' = [pc EXCEPT ![r] = "text"]
            /\ UNCHANGED responses
  /\ UNCHANGED <<otherVars, event, thrown, acceptRequests, streams, frames>>

\* fetch rejects (transport failure): the catch block responds.
FetchRejects(r, err) ==
  /\ pc[r] = "fetch"
  /\ Catch(r, err)


\* Mutant of AcceptTextSettles: the refusal is logged and the handler returns
\* without responding.
AcceptTextSettles_NoResponse(r) ==
  /\ pc[r] = "text"
  /\ pc' = [pc EXCEPT ![r] = "done"]
  /\ UNCHANGED <<otherVars, event, thrown, acceptRequests, acceptResp, resHeaders, responses,
                 timers, streams, frames>>

\* acceptResp.text().catch(() => '') settles: log and respond.
AcceptTextSettles(r) ==
  /\ pc[r] = "text"
  /\ responses' = [responses EXCEPT ![r] = Append(@, AcceptFailedResponse(r))]
  /\ pc' = [pc EXCEPT ![r] = "done"]
  /\ UNCHANGED <<otherVars, event, thrown, acceptRequests, acceptResp, resHeaders, timers, streams, frames>>

\* ------------------------------------------------------ function calls

\* Mutant of FunctionImplementations: get_random_number has no entry.
FunctionImplementations_TimeOnly == {"get_current_time"}

\* The keys of functionImplementations.
FunctionImplementations == {"get_current_time", "get_random_number"}

\* Values Math.floor(Math.random() * 101) can take (the two ends).
RandomNumbers == {0, 100}

\* What awaiting fn(args) can settle to: the value the implementation
\* returns, or an error it throws (with or without a message).
ToolOutcomes(name) ==
  (CASE name = "get_current_time" ->
          { [threw |-> FALSE, message |-> Undefined,
             result |-> [key |-> "current_time", value |-> "2026-11-01T10:00:00.000Z",
                         string |-> TRUE]] }
     [] name = "get_random_number" ->
          { [threw |-> FALSE, message |-> Undefined,
             result |-> [key |-> "random_number", value |-> ToString(n),
                         string |-> FALSE]] : n \in RandomNumbers }
     [] OTHER -> {})
  \cup
  { [threw |-> TRUE, message |-> m,
     result |-> [key |-> Undefined, value |-> Undefined, string |-> FALSE]] :
      m \in {"boom", Undefined} }

\* The result object of the catch branch: { error: e?.message ?? '...' }.
ThrownResult(message) ==
  [key |-> "error",
   value |-> IF message = Undefined THEN "Unknown error running function" ELSE message,
   string |-> TRUE]

\* Mutant of NotImplementedResult: the error text is the bare
\* "<name> is not implemented".
NotImplementedResult_NoPrefix(name) ==
  [key |-> "error", value |-> JsString(name) \o " is not implemented",
   string |-> TRUE]

\* The result object of the else branch, for a name with no implementation.
NotImplementedResult(name) ==
  [key |-> "error", value |-> "Function " \o JsString(name) \o " is not implemented.",
   string |-> TRUE]

\* Mutant of JSONStringify: the value alone, not the encoded object.
JSONStringify_ValueOnly(result) == result.value

\* JSON.stringify of a one-key result object.
JSONStringify(result) ==
  "{\"" \o result.key \o "\":"
    \o (IF result.string THEN "\"" \o result.value \o "\"" ELSE result.value) \o "}"

\* JSON.parse succeeds on an arguments string.
IsValidJson(text) == text \in {"{}", "{\"n\":1}"}

\* args after the try block: the parsed arguments, {} when the string is
\* missing or does not parse.
ParseArguments(arguments) ==
  IF arguments # Undefined /\ IsValidJson(arguments) THEN arguments ELSE "{}"

\* call_id of the output item: item?.id ?? item?.call_id.
OutputCallId(item) == IF item.id # Undefined THEN item.id ELSE item.call_id

NoOutputItem == [type |-> Undefined, call_id |-> Undefined, output |-> Undefined]

\* The greeting, and the output event for a function call item.  request is
\* history: the position in calls of the function call the send belongs to.
InitialGreetingEvent ==
  [type |-> "response.create", item |-> NoOutputItem, request |-> 0]

OutputEvent(item, result, k) ==
  [type |-> "conversation.item.create",
   item |-> [type |-> "function_call_output", call_id |-> OutputCallId(item),
             output |-> JSONStringify(result)],
   request |-> k]


\* Mutant of WsSend: the data is written whatever the state of the socket.
WsSend_Unconditional(stream, data) == Append(stream.sent, data)

\* ws.send(data): written only while the socket is open; on a closing or
\* closed socket the data is discarded.
WsSend(stream, data) ==
  IF stream.state = "open" THEN Append(stream.sent, data) ELSE stream.sent

\* --------------------------------------------------------------- streams
\* new WebSocket(uri, {headers}) in websocketTask, for timer i of request r.
NewStream(r, i) ==
  [timer |-> i, uri |-> timers[r][i].uri,
   authorization |-> "Bearer " \o OPENAI_API_KEY,
   state |-> "connecting", sent |-> <<>>, calls |-> <<>>, pending |-> {},
   log |-> {}]

\* A connect timer fires: websocketTask creates the socket and registers
\* the handlers.
TimerFires(r, i) ==
  /\ i \in DOMAIN timers[r]
  /\ ~timers[r][i].fired
  /\ timers' = [timers EXCEPT ![r][i].fired = TRUE]
  /\ streams' = [streams EXCEPT ![r] = Append(@, NewStream(r, i))]
  /\ UNCHANGED <<otherVars, hookVars, frames>>

\* Mutant of OnOpen: the greeting is sent twice.
OnOpen_GreetsTwice(stream) ==
  [stream EXCEPT !.state = "open",
                 !.log = @ \cup {"opened"},
                 !.sent = @ \o <<InitialGreetingEvent, InitialGreetingEvent>>]

\* Mutant of OnOpen: no greeting is sent.
OnOpen_NoGreeting(stream) ==
  [stream EXCEPT !.state = "open", !.log = @ \cup {"opened"}]

\* The stream after its 'open' handler has run.
OnOpen(stream) ==
  [stream EXCEPT !.state = "open",
                 !.log = @ \cup {"opened"},
                 !.sent = WsSend([stream EXCEPT !.state = "open"], InitialGreetingEvent)]

\* 'open': the handshake completed.
WsOpen(r, s) ==
  /\ s \in DOMAIN streams[r]
  /\ streams[r][s].state = "connecting"
  /\ streams' = [streams EXCEPT ![r][s] = OnOpen(@)]
  /\ UNCHANGED <<otherVars, hookVars, timers, frames>>

\* Mutant of HandleFunctionCall: a name with no implementation is ignored.
HandleFunctionCall_DropsUnknown(stream, item) ==
  LET k == Len(stream.calls) + 1
      entry == [item |-> item, args |-> ParseArguments(item.arguments)]
  IN  IF item.name \in FunctionImplementations
        THEN [stream EXCEPT !.calls = Append(@, entry), !.pending = @ \cup {k}]
        ELSE [stream EXCEPT !.calls = Append(@, entry)]

\* Mutant of HandleFunctionCall: arguments that do not parse end the
\* handler (no catch around JSON.parse).
HandleFunctionCall_AbortsOnBadArguments(stream, item) ==
  LET k == Len(stream.calls) + 1
      entry == [item |-> item, args |-> ParseArguments(item.arguments)]
  IN  IF item.arguments # Undefined /\ ~IsValidJson(item.arguments)
        THEN [stream EXCEPT !.calls = Append(@, entry)]
        ELSE IF item.name \in FunctionImplementations
               THEN [stream EXCEPT !.calls = Append(@, entry), !.pending = @ \cup {k}]
               ELSE [stream EXCEPT !.calls = Append(@, entry),
                                   !.sent = WsSend(stream,
                                              OutputEvent(item, NotImplementedResult(item.name), k))]

\* handleFunctionCall up to its first await or, without one, to its end:
\* an implemented name suspends on fn(args), any other name sends the
\* not-implemented result at once.
HandleFunctionCall(stream, item) ==
  LET k == Len(stream.calls) + 1
      args == ParseArguments(item.arguments)
      warned == item.arguments # Undefined /\ ~IsValidJson(item.arguments)
      entry == [item |-> item, args |-> args]
      logged == IF warned THEN stream.log \cup {"warn:arguments"} ELSE stream.log
  IN  IF item.name \in FunctionImplementations
        THEN [stream EXCEPT !.calls = Append(@, entry),
                            !.pending = @ \cup {k},
                            !.log = logged]
        ELSE [stream EXCEPT !.calls = Append(@, entry),
                            !.log = logged,
                            !.sent = WsSend(stream,
                                       OutputEvent(item, NotImplementedResult(item.name), k))]

\* Mutant of OnMessage: the type of the event is not tested, only the type
\* of its item.
OnMessage_AnyFunctionCallItem(stream, frame) ==
  IF ~frame.json
    THEN [stream EXCEPT !.log = @ \cup {"warn:parse"}]
    ELSE IF frame.item.type = "function_call"
           THEN HandleFunctionCall(stream, frame.item)
           ELSE stream

\* The stream after its 'message' handler has run on a frame, up to the
\* first await.
OnMessage(stream, frame) ==
  IF ~frame.json
    THEN [stream EXCEPT !.log = @ \cup {"warn:parse"}]
    ELSE IF frame.type = "conversation.item.created" /\ frame.item.type = "function_call"
           THEN HandleFunctionCall(stream, frame.item)
           ELSE stream

\* 'message': the remote side delivers a frame on an open stream.
WsMessage(r, s, frame) ==
  /\ s \in DOMAIN streams[r]
  /\ streams[r][s].state = "open"
  /\ frames < MaxFrames
  /\ frames' = frames + 1
  /\ streams' = [streams EXCEPT ![r][s] = OnMessage(@, frame)]
  /\ UNCHANGED <<otherVars, hookVars, timers>>

\* Mutant of OnToolSettled: no try/catch around the call, so a throwing
\* implementation ends the handler before it sends.
OnToolSettled_ThrowEscapes(stream, k, outcome) ==
  IF outcome.threw
    THEN [stream EXCEPT !.pending = @ \ {k}]
    ELSE [stream EXCEPT !.pending = @ \ {k},
                        !.sent = WsSend(stream,
                                   OutputEvent(stream.calls[k].item, outcome.result, k))]

\* Mutant of OnToolSettled: the result is sent twice.
OnToolSettled_SendsTwice(stream, k, outcome) ==
  LET item == stream.calls[k].item
      result == IF outcome.threw THEN ThrownResult(outcome.message) ELSE outcome.result
      once == [stream EXCEPT !.sent = WsSend(stream, OutputEvent(item, result, k))]
  IN  [stream EXCEPT !.pending = @ \ {k},
                     !.sent = WsSend(once, OutputEvent(item, result, k))]

\* Mutant of OnToolSettled: an error thrown by the implementation is not
\* answered and takes the stream down.
OnToolSettled_ThrowCloses(stream, k, outcome) ==
  IF outcome.threw
    THEN [stream EXCEPT !.pending = @ \ {k}, !.state = "closed"]
    ELSE [stream EXCEPT !.pending = @ \ {k},
                        !.sent = WsSend(stream,
                                   OutputEvent(stream.calls[k].item, outcome.result, k))]

\* The stream after fn(args) of pending call k has settled with outcome:
\* the rest of handleFunctionCall.
OnToolSettled(stream, k, outcome) ==
  LET item == stream.calls[k].item
      result == IF outcome.threw THEN ThrownResult(outcome.message) ELSE outcome.result
  IN  [stream EXCEPT !.pending = @ \ {k},
                     !.sent = WsSend(stream, OutputEvent(item, result, k))]

\* Mutant of ToolSettles: the result is sent on every stream of the server.
ToolSettles_Broadcast(r, s, k, outcome) ==
  /\ s \in DOMAIN streams[r]
  /\ k \in streams[r][s].pending
  /\ outcome \in ToolOutcomes(streams[r][s].calls[k].item.name)
  /\ streams' =
       [r2 \in Requests |->
          [s2 \in DOMAIN streams[r2] |->
             IF r2 = r /\ s2 = s
               THEN OnToolSettled(streams[r][s], k, outcome)
               ELSE [streams[r2][s2] EXCEPT
                       !.sent = OnToolSettled([streams[r][s] EXCEPT
                                                 !.state = streams[r2][s2].state,
                                                 !.sent = streams[r2][s2].sent],
                                              k, outcome).sent]]]
  /\ UNCHANGED <<otherVars, hookVars, timers, frames>>

\* The awaited implementation of a pending call settles.
ToolSettles(r, s, k, outcome) ==
  /\ s \in DOMAIN streams[r]
  /\ k \in streams[r][s].pending
  /\ outcome \in ToolOutcomes(streams[r][s].calls[k].item.name)
  /\ streams' = [streams EXCEPT ![r][s] = OnToolSettled(@, k, outcome)]
  /\ UNCHANGED <<otherVars, hookVars, timers, frames>>

\* Mutant of WsError: the error is logged and the stream stays as it was.
WsError_KeepsOpen(r, s) ==
  /\ s \in DOMAIN streams[r]
  /\ streams[r][s].state \in {"connecting", "open"}
  /\ "error" \notin streams[r][s].log
  /\ streams' = [streams EXCEPT ![r][s].log = @ \cup {"error"}]
  /\ UNCHANGED <<otherVars, hookVars, timers, frames>>

\* 'error': a connect failure or a transport error; the handler logs it and
\* the socket is on its way to 'close'.
WsError(r, s) ==
  /\ s \in DOMAIN streams[r]
  /\ streams[r][s].state \in {"connecting", "open"}
  /\ streams' = [streams EXCEPT ![r][s].state = "closing", ![r][s].log = @ \cup {"error"}]
  /\ UNCHANGED <<otherVars, hookVars, timers, frames>>

\* Mutant of WsClose: the close handler schedules a reconnect.
WsClose_Reconnects(r, s) ==
  /\ s \in DOMAIN streams[r]
  /\ streams[r][s].state \in {"open", "closing"}
  /\ streams' = [streams EXCEPT ![r][s].state = "closed", ![r][s].log = @ \cup {"closed"}]
  /\ timers' = [timers EXCEPT ![r] = ConnectWithDelay(streams[r][s].uri, DefaultDelay, r)]
  /\ UNCHANGED <<otherVars, hookVars, frames>>

\* 'close': after an error, or when the remote side closes an open stream.
WsClose(r, s) ==
  /\ s \in DOMAIN streams[r]
  /\ streams[r][s].state \in {"open", "closing"}
  /\ streams' = [streams EXCEPT ![r][s].state = "closed", ![r][s].log = @ \cup {"closed"}]
  /\ UNCHANGED <<otherVars, hookVars, timers, frames>>

\* ------------------------------------------------------- specification
Next ==
  \/ \E r \in Requests : Post(r)
  \/ \E r \in Requests, ev \in WebhookEvents : UnwrapResolves(r, ev)
  \/ \E r \in Requests, err \in SignatureErrors \cup UnwrapOtherErrors : UnwrapThrows(r, err)
  \/ \E r \in Requests, resp \in AcceptResponses : FetchResolves(r, resp)
  \/ \E r \in Requests, err \in FetchErrors : FetchRejects(r, err)
  \/ \E r \in Requests : AcceptTextSettles(r)
  \/ \E r \in Requests : \E i \in DOMAIN timers[r] : TimerFires(r, i)
  \/ \E r \in Requests : \E s \in DOMAIN streams[r] : WsOpen(r, s)
  \/ \E r \in Requests, frame \in Frames : \E s \in DOMAIN streams[r] : WsMessage(r, s, frame)
  \/ \E r \in Requests : \E s \in DOMAIN streams[r] :
       \E k \in streams[r][s].pending :
         \E outcome \in ToolOutcomes(streams[r][s].calls[k].item.name) :
           ToolSettles(r, s, k, outcome)
  \/ \E r \in Requests : \E s \in DOMAIN streams[r] : WsError(r, s)
  \/ \E r \in Requests : \E s \in DOMAIN streams[r] : WsClose(r, s)

Spec == Init /\ [][Next]_vars

\* The webhook of a call delivered again after the call has ended: a POST
\* that arrives once the stream of the request before it has closed.
ReplayPost(r) ==
  /\ Post(r)
  /\ r > 1 => /\ streams[r - 1] # <<>>
              /\ \A s \in DOMAIN streams[r - 1] : streams[r - 1][s].state = "closed"

\* The server when every later request is such a replay.
ReplayNext ==
  \/ \E r \in Requests : ReplayPost(r)
  \/ \E r \in Requests, ev \in WebhookEvents : UnwrapResolves(r, ev)
  \/ \E r \in Requests, err \in SignatureErrors \cup UnwrapOtherErrors : UnwrapThrows(r, err)
  \/ \E r \in Requests, resp \in AcceptResponses : FetchResolves(r, resp)
  \/ \E r \in Requests, err \in FetchErrors : FetchRejects(r, err)
  \/ \E r \in Requests : AcceptTextSettles(r)
  \/ \E r \in Requests : \E i \in DOMAIN timers[r] : TimerFires(r, i)
  \/ \E r \in Requests : \E s \in DOMAIN streams[r] : WsOpen(r, s)
  \/ \E r \in Requests, frame \in Frames : \E s \in DOMAIN streams[r] : WsMessage(r, s, frame)
  \/ \E r \in Requests : \E s \in DOMAIN streams[r] :
       \E k \in streams[r][s].pending :
         \E outcome \in ToolOutcomes(streams[r][s].calls[k].item.name) :
           ToolSettles(r, s, k, outcome)
  \/ \E r \in Requests : \E s \in DOMAIN streams[r] : WsError(r, s)
  \/ \E r \in Requests : \E s \in DOMAIN streams[r] : WsClose(r, s)

ReplaySpec == Init /\ [][ReplayNext]_vars

\* ------------------------------------------------------------ variants
\* The accept path of the programs that differ from src/server.js in how
\* they pick the stream's endpoint and credential: src/unnamed/part_002,
\* part_003 and part_006, with src/server.js beside them.
Programs == {"server.js", "part_002", "part_003", "part_006"}

\* JavaScript truthiness of a string that may be missing.
Truthy(v) == v \notin {Undefined, ""}

\* if (!callId) return res.status(400).send('Missing call_id'): present in
\* the three variants, absent from src/server.js.
ValidatesCallId(program) == program \in {"part_002", "part_003", "part_006"}

\* The default endpoint of a call, as each of these programs builds it.
DefaultWssUrl(callId) ==
  "wss://api.openai.com/v1/realtime?call_id=" \o EncodeURIComponent(callId)

\* Mutant of WssUrl_part_002: ws_url is ignored.
WssUrl_part_002_DefaultOnly(callId, data) == DefaultWssUrl(callId)

\* Mutant of WssUrl_part_002: the call identifier is not encoded.
WssUrl_part_002_Raw(callId, data) ==
  IF Truthy(data.ws_url)
    THEN data.ws_url
    ELSE "wss://api.openai.com/v1/realtime?call_id=" \o JsString(callId)

\* part_002: acceptData?.ws_url ? acceptData.ws_url : default.
WssUrl_part_002(callId, data) ==
  IF Truthy(data.ws_url) THEN data.ws_url ELSE DefaultWssUrl(callId)


\* Mutant of Token_part_002: the secret is used only together with ws_url.
Token_part_002_WithUrlOnly(data) ==
  IF Truthy(data.secret) /\ Truthy(data.ws_url) THEN data.secret ELSE OPENAI_API_KEY

\* part_002: acceptData?.client_secret?.value || OPENAI_API_KEY.
Token_part_002(data) ==
  IF Truthy(data.secret) THEN data.secret ELSE OPENAI_API_KEY

\* part_006: the same two selections.
WssUrl_part_006(callId, data) ==
  IF Truthy(data.ws_url) THEN data.ws_url ELSE DefaultWssUrl(callId)

Token_part_006(data) ==
  IF Truthy(data.secret) THEN data.secret ELSE OPENAI_API_KEY

\* setTimeout(..., delay) of a program: the timer it arms.
VTimer(uri, token, delay) ==
  [uri |-> uri, token |-> token, delay |-> delay, fired |-> FALSE]

\* Mutant of ConnectControlWsIfAvailable: without ws_url the default
\* endpoint is used.
ConnectControlWsIfAvailable_Fallback(r, callId, data) ==
  Append(vtimers[r],
         VTimer(IF Truthy(data.ws_url) THEN data.ws_url ELSE DefaultWssUrl(callId),
                IF Truthy(data.secret) THEN data.secret ELSE OPENAI_API_KEY, 800))

\* part_003, connectControlWsIfAvailable: no ws_url, no control WebSocket.
ConnectControlWsIfAvailable(r, callId, data) ==
  IF ~Truthy(data.ws_url)
    THEN vtimers[r]
    ELSE Append(vtimers[r],
                VTimer(data.ws_url,
                       IF Truthy(data.secret) THEN data.secret ELSE OPENAI_API_KEY, 800))

\* The timers of request r once its program has read an ok accept response.
VConnect(program, r, callId, data) ==
  CASE program = "server.js" ->
         Append(vtimers[r], VTimer(WssUrl(callId), OPENAI_API_KEY, ConnectDelayArg))
    [] program = "part_002" ->
         Append(vtimers[r],
                VTimer(WssUrl_part_002(callId, data), Token_part_002(data), 1200))
    [] program = "part_003" -> ConnectControlWsIfAvailable(r, callId, data)
    [] program = "part_006" ->
         Append(vtimers[r],
                VTimer(WssUrl_part_006(callId, data), Token_part_006(data), 2500))

\* The response of a program to an accept response that is not ok.
VAcceptFailed(program) ==
  CASE program = "server.js" -> Response(500, "Call accept failed", {})
    [] program = "part_003" -> Response(502, "Call accept failed", {})
    [] OTHER -> Response(502, "Accept failed", {})

\* unwrap has returned an incoming-call event to the handler of a program:
\* a variant rejects a missing call_id, and otherwise the accept request is
\* sent and awaited.
VIncoming(r, program, callId) ==
  /\ vpc[r].at = "idle"
  /\ IF r = 1 THEN TRUE ELSE vpc[r - 1].at # "idle"
  /\ vcallId' = [vcallId EXCEPT ![r] = callId]
  /\ IF ValidatesCallId(program) /\ ~Truthy(callId)
       THEN /\ vpc' = [vpc EXCEPT ![r] = [program |-> program, at |-> "done"]]
            /\ vres' = [vres EXCEPT ![r] = Append(@, Response(400, "Missing call_id", {}))]
       ELSE /\ vpc' = [vpc EXCEPT ![r] = [program |-> program, at |-> "fetch"]]
            /\ UNCHANGED vres
  /\ UNCHANGED <<serverVars, builderVars, vaccept, vtimers, vstreams>>

\* The accept response has arrived and its body was read: not ok is
\* answered with the program's error response; ok arms the connect timer
\* (if the program connects at all), sets the header and responds 200.
VAcceptSettles(r, ok, data) ==
  /\ vpc[r].at = "fetch"
  /\ vaccept' = [vaccept EXCEPT ![r] = [ok |-> ok, data |-> data]]
  /\ vpc' = [vpc EXCEPT ![r].at = "done"]
  /\ IF ok
       THEN /\ vtimers' = [vtimers EXCEPT ![r] =
                             VConnect(vpc[r].program, r, vcallId[r], data)]
            /\ vres' = [vres EXCEPT ![r] =
                          Append(@, Response(200, "OK",
                                   {<<"Authorization", "Bearer " \o OPENAI_API_KEY>>}))]
       ELSE /\ vres' = [vres EXCEPT ![r] = Append(@, VAcceptFailed(vpc[r].program))]
            /\ UNCHANGED vtimers
  /\ UNCHANGED <<serverVars, builderVars, vcallId, vstreams>>

\* fetch rejects: the catch block of the program responds 500.
VFetchRejects(r) ==
  /\ vpc[r].at = "fetch"
  /\ vpc' = [vpc EXCEPT ![r].at = "done"]
  /\ vres' = [vres EXCEPT ![r] = Append(@, Response(500, "Server error", {}))]
  /\ UNCHANGED <<serverVars, builderVars, vcallId, vaccept, vtimers, vstreams>>

\* A connect timer fires: the WebSocket is created with the endpoint and
\* the credential the timer was armed with.
VTimerFires(r, i) ==
  /\ i \in DOMAIN vtimers[r]
  /\ ~vtimers[r][i].fired
  /\ vtimers' = [vtimers EXCEPT ![r][i].fired = TRUE]
  /\ vstreams' = [vstreams EXCEPT ![r] =
                    Append(@, [uri |-> vtimers[r][i].uri,
                               authorization |-> "Bearer " \o vtimers[r][i].token,
                               state |-> "connecting", sent |-> <<>>])]
  /\ UNCHANGED <<serverVars, builderVars, vpc, vcallId, vaccept, vres>>

\* 'open': the greeting is sent.
VWsOpen(r, s) ==
  /\ s \in DOMAIN vstreams[r]
  /\ vstreams[r][s].state = "connecting"
  /\ vstreams' = [vstreams EXCEPT ![r][s].state = "open",
                                 ![r][s].sent = Append(@, InitialGreetingEvent)]
  /\ UNCHANGED <<serverVars, builderVars, vpc, vcallId, vaccept, vres, vtimers>>

\* 'error', then 'close': both handlers only log.
VWsError(r, s) ==
  /\ s \in DOMAIN vstreams[r]
  /\ vstreams[r][s].state \in {"connecting", "open"}
  /\ vstreams' = [vstreams EXCEPT ![r][s].state = "closing"]
  /\ UNCHANGED <<serverVars, builderVars, vpc, vcallId, vaccept, vres, vtimers>>

VWsClose(r, s) ==
  /\ s \in DOMAIN vstreams[r]
  /\ vstreams[r][s].state \in {"open", "closing"}
  /\ vstreams' = [vstreams EXCEPT ![r][s].state = "closed"]
  /\ UNCHANGED <<serverVars, builderVars, vpc, vcallId, vaccept, vres, vtimers>>

VariantNext ==
  \/ \E r \in Requests, program \in Programs, callId \in CallIds \cup {Undefined} :
       VIncoming(r, program, callId)
  \/ \E r \in Requests, ok \in BOOLEAN, data \in AcceptDatas : VAcceptSettles(r, ok, data)
  \/ \E r \in Requests : VFetchRejects(r)
  \/ \E r \in Requests : \E i \in DOMAIN vtimers[r] : VTimerFires(r, i)
  \/ \E r \in Requests : \E s \in DOMAIN vstreams[r] : VWsOpen(r, s)
  \/ \E r \in Requests : \E s \in DOMAIN vstreams[r] : VWsError(r, s)
  \/ \E r \in Requests : \E s \in DOMAIN vstreams[r] : VWsClose(r, s)

VariantSpec == Init /\ [][VariantNext]_vars

\* ------------------------------------------------- vocabulary of claims
Incoming(r) == event[r].type = "realtime.call.incoming"

\* The incoming-call event of request r has a call identifier.
HasCallId(r) == Incoming(r) /\ event[r].call_id # Undefined

\* unwrap of request r threw: nothing was decoded and the catch block ran.
UnwrapFailed(r) == event[r] = NoEvent /\ thrown[r] # NoError

\* Signature verification of request r failed.
SignatureFailed(r) == UnwrapFailed(r) /\ thrown[r] \in SignatureErrors

\* fetch of request r resolved, with a non-success status.
AcceptAnswered(r) == acceptResp[r] # NoResponse
AcceptRefused(r) == AcceptAnswered(r) /\ ~acceptResp[r].ok

\* fetch of request r rejected.
AcceptTransportFailed(r) == Incoming(r) /\ thrown[r] # NoError

\* No stream was scheduled or attempted for request r.
NoStreamFor(r) == timers[r] = <<>> /\ streams[r] = <<>>

\* Positions in sent of the function_call_output events of a stream, and of
\* those sent by the handler of its k-th function call.
Outputs(stream) ==
  { i \in DOMAIN stream.sent : stream.sent[i].item.type = "function_call_output" }

Greetings(stream) ==
  { i \in DOMAIN stream.sent : stream.sent[i].type = "response.create" }

ResultsFor(stream, k) == { i \in Outputs(stream) : stream.sent[i].request = k }

\* A function_call item carries identifier x (as its id or its call_id);
\* an item with neither carries none.
Carries(item, x) ==
  IF x = Undefined
    THEN item.id = Undefined /\ item.call_id = Undefined
    ELSE x \in {item.id, item.call_id}

\* The results sent for call k that carry an identifier of its request.
CorrelatedResultsFor(stream, k) ==
  { i \in ResultsFor(stream, k) :
      /\ stream.sent[i].type = "conversation.item.create"
      /\ Carries(stream.calls[k].item, stream.sent[i].item.call_id) }

\* The handler of the k-th function call of a stream has run to its end.
Finished(stream, k) == k \in DOMAIN stream.calls /\ k \notin stream.pending

\* ------------------------------------------------------------- claims
\* C1 (as stated): on every stream, each received function_call item whose
\* handler has finished was answered with exactly one correlated
\* function_call_output, never zero and never two.  (Stated for the
\* streams of calls that have an identifier and the requests that have an
\* id, so that a violation does not rest on a missing identifier.)
C1_EveryRequestAnsweredExactlyOnce ==
  \A r \in Requests : \A s \in DOMAIN streams[r] :
    \A k \in DOMAIN streams[r][s].calls :
      (/\ HasCallId(r)
       /\ streams[r][s].calls[k].item.id # Undefined
       /\ Finished(streams[r][s], k)) =>
        /\ Cardinality(ResultsFor(streams[r][s], k)) = 1
        /\ Cardinality(CorrelatedResultsFor(streams[r][s], k)) = 1

\* C1 (amended): each received function_call item is answered with at most
\* one function_call_output, always a correlated one, none while its tool
\* is still awaited; and on a stream that is still open every finished
\* handler has sent exactly one (a result whose tool settles after the
\* stream left Open is discarded by ws.send).
C1_AnsweredOnceWhileOpen ==
  \A r \in Requests : \A s \in DOMAIN streams[r] :
    \A k \in DOMAIN streams[r][s].calls :
      LET stream == streams[r][s]
          n == Cardinality(ResultsFor(stream, k))
      IN  /\ n <= 1
          /\ CorrelatedResultsFor(stream, k) = ResultsFor(stream, k)
          /\ k \in stream.pending => n = 0
          /\ (Finished(stream, k) /\ stream.state = "open") => n = 1

\* An open stream on which an unknown tool and a throwing tool were both
\* answered.
C1_Witness ==
  \E r \in Requests : \E s \in DOMAIN streams[r] :
    LET stream == streams[r][s]
    IN  /\ stream.state = "open"
        /\ \E k \in DOMAIN stream.calls :
             /\ stream.calls[k].item.name = "unknown_tool"
             /\ Cardinality(ResultsFor(stream, k)) = 1
        /\ \E k \in DOMAIN stream.calls, i \in DOMAIN stream.sent :
             /\ stream.calls[k].item.name \in FunctionImplementations
             /\ Finished(stream, k)
             /\ stream.sent[i].request = k
             /\ stream.sent[i].item.output = JSONStringify(ThrownResult("boom"))

\* C2: a request whose signature verification failed is answered 400 with
\* the body 'Invalid signature', and no accept request was sent and no
\* stream scheduled for it.
C2_BadSignatureRejectedBeforeSideEffects ==
  \A r \in Requests :
    SignatureFailed(r) =>
      /\ responses[r] = <<Response(400, "Invalid signature", {})>>
      /\ acceptRequests[r] = <<>>
      /\ NoStreamFor(r)

\* A request rejected for its signature, by an error recognised by its
\* message only.
C2_Witness ==
  \E r \in Requests :
    /\ SignatureFailed(r)
    /\ pc[r] = "done"
    /\ thrown[r].name = "Error"

\* C3: a verified incoming-call event without call_id is answered 400, and
\* no accept request is sent and no stream scheduled for it.
C3_MissingCallIdRejected ==
  \A r \in Requests :
    (Incoming(r) /\ event[r].call_id = Undefined) =>
      /\ acceptRequests[r] = <<>>
      /\ NoStreamFor(r)
      /\ \A i \in DOMAIN responses[r] : responses[r][i].status = 400

\* C4: when the accept endpoint answered with a non-success status, no
\* stream connection is scheduled or attempted for that request.
C4_NoStreamAfterRefusedAccept ==
  \A r \in Requests : AcceptRefused(r) => NoStreamFor(r)

\* A request whose accept was refused with 404 and whose handler is done.
C4_Witness ==
  \E r \in Requests :
    /\ AcceptRefused(r)
    /\ acceptResp[r].status = 404
    /\ pc[r] = "done"

C6_OkOnlyAfterAcceptSucceeded ==
  \A r \in Requests :
    Incoming(r) =>
      \A i \in DOMAIN responses[r] :
        /\ Len(acceptRequests[r]) >= 1
        /\ AcceptAnswered(r) \/ AcceptTransportFailed(r)
        /\ responses[r][i].status = 200 => (AcceptAnswered(r) /\ acceptResp[r].ok)

\* An accepted incoming call answered 200.
C6_Witness ==
  \E r \in Requests :
    /\ Incoming(r)
    /\ acceptResp[r].ok
    /\ Len(responses[r]) = 1
    /\ responses[r][1].status = 200

\* C7: at most one accept request is ever sent for a webhook request.
C7_AcceptNeverRetried ==
  \A r \in Requests : Len(acceptRequests[r]) <= 1

\* One request whose accept failed in transport and one whose accept was
\* refused, both finished, each with its single accept request.
C7_Witness ==
  \E r1, r2 \in Requests :
    /\ pc[r1] = "done" /\ AcceptTransportFailed(r1) /\ Len(acceptRequests[r1]) = 1
    /\ pc[r2] = "done" /\ AcceptRefused(r2) /\ Len(acceptRequests[r2]) = 1

\* C8: a stream has sent no greeting while connecting, exactly one from
\* the moment it opened (as its first event), and never a second one.
C8_GreetingExactlyOnceOnOpen ==
  \A r \in Requests : \A s \in DOMAIN streams[r] :
    LET stream == streams[r][s]
        n == Cardinality(Greetings(stream))
    IN  /\ n <= 1
        /\ stream.state = "connecting" => stream.sent = <<>>
        /\ "opened" \in stream.log <=> n = 1
        /\ stream.state = "open" => "opened" \in stream.log
        /\ n = 1 => stream.sent[1] = InitialGreetingEvent

\* A stream that opened, answered a function call and closed.
C8_Witness ==
  \E r \in Requests : \E s \in DOMAIN streams[r] :
    /\ streams[r][s].state = "closed"
    /\ Cardinality(Greetings(streams[r][s])) = 1
    /\ Outputs(streams[r][s]) # {}

\* C9: on a stream, every function_call_output is preceded by the greeting.
C9_GreetingBeforeAnyResult ==
  \A r \in Requests : \A s \in DOMAIN streams[r] :
    \A i \in Outputs(streams[r][s]) :
      \E j \in Greetings(streams[r][s]) : j < i

\* A stream with a result sent at once (unknown tool) and one sent after
\* the tool settled.
C9_Witness ==
  \E r \in Requests : \E s \in DOMAIN streams[r] :
    LET stream == streams[r][s]
    IN  \E i, j \in Outputs(stream) :
          /\ stream.calls[stream.sent[i].request].item.name \notin FunctionImplementations
          /\ stream.calls[stream.sent[j].request].item.name \in FunctionImplementations

\* C10: on a stream, the results sent with an identifier never outnumber
\* the requests received with that identifier (so none is sent before such
\* a request was received on that stream).
C10_ResultsNeverOutnumberRequests ==
  \A r \in Requests : \A s \in DOMAIN streams[r] :
    LET stream == streams[r][s]
    IN  \A x \in {"fc1", "fc2", "fc3", "call_9", Undefined} :
          Cardinality({ i \in Outputs(stream) : stream.sent[i].item.call_id = x })
            <= Cardinality({ k \in DOMAIN stream.calls : Carries(stream.calls[k].item, x) })

\* Two requests with the same id on one stream, both answered.
C10_Witness ==
  \E r \in Requests : \E s \in DOMAIN streams[r] :
    Cardinality({ i \in Outputs(streams[r][s]) :
                    streams[r][s].sent[i].item.call_id = "fc1" }) = 2

\* Texts of the error results: the two of the catch branch, and the
\* not-implemented text with and without the code's wording.
ErrorTexts ==
  { "boom", "Unknown error running function",
    "Function unknown_tool is not implemented.",
    "Function undefined is not implemented.",
    "unknown_tool is not implemented",
    "undefined is not implemented" }

\* An output string is the JSON of an object with an 'error' field.
HasErrorField(output) ==
  \E m \in ErrorTexts : output = "{\"error\":\"" \o m \o "\"}"

\* C11: the call_id of every function_call_output equals the call_id of
\* the function_call item it answers, also when the item has an id with a
\* different value.  (Stated for the streams of calls that have an
\* identifier.)
C11_OutputCallIdIsRequestCallId ==
  \A r \in Requests : \A s \in DOMAIN streams[r] :
    \A k \in DOMAIN streams[r][s].calls :
      \A i \in ResultsFor(streams[r][s], k) :
        (HasCallId(r) /\ streams[r][s].calls[k].item.call_id # Undefined) =>
          streams[r][s].sent[i].item.call_id = streams[r][s].calls[k].item.call_id

IsFunctionCallRequest(frame) ==
  frame.json /\ frame.type = "conversation.item.created" /\ frame.item.type = "function_call"

\* The arguments of a function_call item are a string that is not JSON.
Malformed(item) == item.arguments \in {"{bad"}

\* C14 (as stated): every function_call request with malformed arguments
\* whose handler has finished went on with {} and was answered with
\* exactly one correlated result.  (Stated for the streams of calls that
\* have an identifier and the requests that have an id.)
C14_MalformedArgumentsAlwaysAnswered ==
  \A r \in Requests : \A s \in DOMAIN streams[r] :
    \A k \in DOMAIN streams[r][s].calls :
      (/\ HasCallId(r)
       /\ Malformed(streams[r][s].calls[k].item)
       /\ streams[r][s].calls[k].item.id # Undefined
       /\ Finished(streams[r][s], k)) =>
        /\ streams[r][s].calls[k].args = "{}"
        /\ Cardinality(CorrelatedResultsFor(streams[r][s], k)) = 1

\* C14 (amended): the handler of a function_call request with malformed
\* arguments logs the failure, goes on with {}, leaves the stream open and
\* either invokes the named tool (sending nothing before it settles) or,
\* for a name that is not implemented, sends its one result at once; such a
\* request never gets two results, and it has exactly one whenever its
\* handler has finished on a stream that is still open.
C14_MalformedArgumentsDispatched ==
  [][\A r \in Requests : \A s \in DOMAIN streams[r] :
       /\ \A frame \in Frames :
            (/\ WsMessage(r, s, frame)
             /\ IsFunctionCallRequest(frame)
             /\ Malformed(frame.item)) =>
              LET k == Len(streams[r][s].calls) + 1
              IN  /\ streams'[r][s].state = "open"
                  /\ streams'[r][s].calls
                       = Append(streams[r][s].calls, [item |-> frame.item, args |-> "{}"])
                  /\ "warn:arguments" \in streams'[r][s].log
                  /\ IF frame.item.name \in {"get_current_time", "get_random_number"}
                       THEN /\ k \in streams'[r][s].pending
                            /\ streams'[r][s].sent = streams[r][s].sent
                       ELSE /\ k \notin streams'[r][s].pending
                            /\ Cardinality(CorrelatedResultsFor(streams'[r][s], k)) = 1
       /\ \A k \in DOMAIN streams'[r][s].calls :
            Malformed(streams'[r][s].calls[k].item) =>
              /\ Cardinality(ResultsFor(streams'[r][s], k)) <= 1
              /\ CorrelatedResultsFor(streams'[r][s], k) = ResultsFor(streams'[r][s], k)
              /\ (Finished(streams'[r][s], k) /\ streams'[r][s].state = "open") =>
                   Cardinality(ResultsFor(streams'[r][s], k)) = 1
    ]_vars

\* An open stream on which the request fc3, whose arguments do not parse,
\* was answered with the value its tool returned.
C14_Witness ==
  \E r \in Requests : \E s \in DOMAIN streams[r] :
    /\ streams[r][s].state = "open"
    /\ "warn:arguments" \in streams[r][s].log
    /\ \E i \in Outputs(streams[r][s]) :
         /\ streams[r][s].sent[i].item.call_id = "fc3"
         /\ streams[r][s].sent[i].item.output
              = "{\"current_time\":\"2026-11-01T10:00:00.000Z\"}"

\* The output of the catch branch for an error with the given message.
ThrownOutput(message) ==
  IF message = Undefined
    THEN "{\"error\":\"Unknown error running function\"}"
    ELSE "{\"error\":\"" \o message \o "\"}"

\* C15 (as stated): whenever the implementation of a function call throws,
\* the handler's result {error: <message>} is sent for that request and
\* the stream is open afterwards.  (Stated for the streams of calls that
\* have an identifier and the requests that have an id.)
C15_ThrowAlwaysAnswered ==
  [][\A r \in Requests : \A s \in DOMAIN streams[r] :
       \A k \in streams[r][s].pending :
         \A outcome \in ToolOutcomes(streams[r][s].calls[k].item.name) :
           (/\ HasCallId(r)
            /\ streams[r][s].calls[k].item.id # Undefined
            /\ ToolSettles(r, s, k, outcome)
            /\ outcome.threw) =>
             /\ streams'[r][s].state = "open"
             /\ \E i \in ResultsFor(streams'[r][s], k) :
                  streams'[r][s].sent[i].item.output = ThrownOutput(outcome.message)
    ]_vars

\* C15 (amended): when the implementation of a function call throws while
\* its stream is open, the handler sends, as the next event of the stream,
\* the function_call_output of that request with the output
\* {"error": <message>} (a fixed text for an error without message),
\* leaves the stream open and leaves the other pending calls pending; and
\* every request received after an answered throw is answered with exactly
\* one result once its handler has finished on the stream still open.
C15_ThrowAnsweredWhileOpen ==
  [][\A r \in Requests : \A s \in DOMAIN streams[r] :
       /\ \A k \in streams[r][s].pending :
            \A outcome \in ToolOutcomes(streams[r][s].calls[k].item.name) :
              (/\ ToolSettles(r, s, k, outcome)
               /\ outcome.threw
               /\ streams[r][s].state = "open") =>
                LET item == streams[r][s].calls[k].item
                IN  /\ streams'[r][s].state = "open"
                    /\ streams'[r][s].pending = streams[r][s].pending \ {k}
                    /\ streams'[r][s].calls = streams[r][s].calls
                    /\ streams'[r][s].sent
                         = Append(streams[r][s].sent,
                                  [type |-> "conversation.item.create",
                                   item |-> [type |-> "function_call_output",
                                             call_id |-> IF item.id # Undefined
                                                           THEN item.id ELSE item.call_id,
                                             output |-> ThrownOutput(outcome.message)],
                                   request |-> k])
       /\ \A i \in Outputs(streams'[r][s]) :
            \A k2 \in DOMAIN streams'[r][s].calls :
              (/\ streams'[r][s].calls[streams'[r][s].sent[i].request].item.name
                    \in {"get_current_time", "get_random_number"}
               /\ HasErrorField(streams'[r][s].sent[i].item.output)
               /\ k2 > streams'[r][s].sent[i].request
               /\ Finished(streams'[r][s], k2)
               /\ streams'[r][s].state = "open") =>
                Cardinality(ResultsFor(streams'[r][s], k2)) = 1
    ]_vars

\* An open stream on which a tool threw and was answered with its message,
\* and a request received later was answered after that.
C15_Witness ==
  \E r \in Requests : \E s \in DOMAIN streams[r] :
    LET stream == streams[r][s]
    IN  /\ stream.state = "open"
        /\ \E i, j \in Outputs(stream) :
             /\ i < j
             /\ stream.sent[i].request < stream.sent[j].request
             /\ stream.calls[stream.sent[i].request].item.name \in FunctionImplementations
             /\ stream.sent[i].item.output = "{\"error\":\"boom\"}"

\* The JSON text of what a tool returned, written out.
ReturnedOutput(result) ==
  CASE result.key = "current_time" -> "{\"current_time\":\"2026-11-01T10:00:00.000Z\"}"
    [] result.key = "random_number" /\ result.value = "0" -> "{\"random_number\":0}"
    [] result.key = "random_number" /\ result.value = "100" -> "{\"random_number\":100}"

\* C16: when the implementation of a function call returns normally, the
\* event the handler sends (the next event of the stream, when the stream
\* is open) is a conversation.item.create whose item is a
\* function_call_output with the request's id as call_id and the JSON
\* encoding of the returned value as output, which has no 'error' field;
\* nothing else is sent.
C16_NormalReturnOutput ==
  [][\A r \in Requests : \A s \in DOMAIN streams[r] :
       \A k \in streams[r][s].pending :
         \A outcome \in ToolOutcomes(streams[r][s].calls[k].item.name) :
           (ToolSettles(r, s, k, outcome) /\ ~outcome.threw) =>
             LET item == streams[r][s].calls[k].item
                 sent == [type |-> "conversation.item.create",
                          item |-> [type |-> "function_call_output",
                                    call_id |-> item.id,
                                    output |-> ReturnedOutput(outcome.result)],
                          request |-> k]
             IN  /\ ~HasErrorField(sent.item.output)
                 /\ streams[r][s].state = "open" =>
                      streams'[r][s].sent = Append(streams[r][s].sent, sent)
                 /\ streams'[r][s].sent \in {streams[r][s].sent,
                                             Append(streams[r][s].sent, sent)}
    ]_vars

\* The request fc1 for get_current_time was answered with the time.
C16_Witness ==
  \E r \in Requests : \E s \in DOMAIN streams[r] :
    \E i \in Outputs(streams[r][s]) :
      /\ streams[r][s].sent[i].item.call_id = "fc1"
      /\ streams[r][s].sent[i].item.output
           = "{\"current_time\":\"2026-11-01T10:00:00.000Z\"}"
      /\ streams[r][s].calls[streams[r][s].sent[i].request].item.arguments = "{}"

\* C17: a closed stream stays closed and nothing more is sent on it; once
\* a stream of a request has closed no timer is armed and no WebSocket
\* created for that request; and a webhook request arms at most one
\* connect timer and creates at most one WebSocket.
C17_ClosedIsTerminal ==
  [][\A r \in Requests :
       /\ Len(timers'[r]) <= 1
       /\ Len(streams'[r]) <= 1
       /\ \A s \in DOMAIN streams[r] :
            streams[r][s].state = "closed" =>
              /\ streams'[r][s].state = "closed"
              /\ streams'[r][s].sent = streams[r][s].sent
              /\ timers'[r] = timers[r]
              /\ Len(streams'[r]) = Len(streams[r])
    ]_vars

\* The stream of a finished request closed after an error, and the other
\* request went on to create its own stream.
C17_Witness ==
  \E r1, r2 \in Requests :
    /\ r1 # r2
    /\ pc[r1] = "done"
    /\ Len(streams[r1]) = 1
    /\ streams[r1][1].state = "closed"
    /\ "error" \in streams[r1][1].log
    /\ Len(streams[r2]) = 1

\* C18 (as stated): a stream on which an error was reported, or a frame
\* that is not JSON was received, has been logged and has left Open.
\* (Stated for the streams of calls that have an identifier.)
C18_EveryStreamErrorCloses ==
  \A r \in Requests : \A s \in DOMAIN streams[r] :
    (HasCallId(r) /\ streams[r][s].log \cap {"error", "warn:parse"} # {}) =>
      streams[r][s].state \in {"closing", "closed"}

\* C18 (amended): an error reported on a stream is logged and takes the
\* stream out of Open for good (it is closed by the 'close' event that
\* follows), and no frame is dispatched on a stream that has left Open;
\* a received frame that is not JSON is logged and skipped: the stream
\* stays open, otherwise unchanged.
C18_ErrorClosesBadFrameSkipped ==
  [][\A r \in Requests : \A s \in DOMAIN streams[r] :
       /\ WsError(r, s) =>
            /\ "error" \in streams'[r][s].log
            /\ streams'[r][s].state = "closing"
       /\ "error" \in streams'[r][s].log =>
            streams'[r][s].state \in {"closing", "closed"}
       /\ streams[r][s].state \in {"closing", "closed"} =>
            /\ streams'[r][s].state \in {"closing", "closed"}
            /\ streams'[r][s].calls = streams[r][s].calls
            /\ "warn:parse" \in streams'[r][s].log => "warn:parse" \in streams[r][s].log
            /\ \A frame \in Frames : ~WsMessage(r, s, frame)
       /\ \A frame \in Frames :
            (WsMessage(r, s, frame) /\ ~frame.json) =>
              /\ streams'[r][s].state = "open"
              /\ streams'[r][s].log = streams[r][s].log \cup {"warn:parse"}
              /\ streams'[r][s].sent = streams[r][s].sent
              /\ streams'[r][s].calls = streams[r][s].calls
              /\ streams'[r][s].pending = streams[r][s].pending
    ]_vars

\* An open stream that received a frame that is not JSON and, as its other
\* frame, a function-call request it answered.
C18_Witness ==
  \E r \in Requests : \E s \in DOMAIN streams[r] :
    /\ streams[r][s].state = "open"
    /\ "warn:parse" \in streams[r][s].log
    /\ frames = MaxFrames
    /\ Len(streams[r][s].calls) = 1
    /\ Cardinality(ResultsFor(streams[r][s], 1)) = 1

\* C19: a received event that is not a conversation.item.created with a
\* function_call item leaves the stream exactly as it was; a stream
\* registers a call only on receiving such a request; and every event sent
\* after the greeting is the function_call_output of a registered call.
C19_OnlyFunctionCallRequestsAnswered ==
  [][\A r \in Requests : \A s \in DOMAIN streams[r] :
       /\ \A frame \in Frames :
            (WsMessage(r, s, frame) /\ frame.json /\ ~IsFunctionCallRequest(frame)) =>
              streams'[r][s] = streams[r][s]
       /\ streams'[r][s].calls # streams[r][s].calls =>
            \E frame \in Frames :
              /\ IsFunctionCallRequest(frame)
              /\ WsMessage(r, s, frame)
              /\ Len(streams'[r][s].calls) = Len(streams[r][s].calls) + 1
              /\ streams'[r][s].calls[Len(streams'[r][s].calls)].item = frame.item
       /\ \A i \in DOMAIN streams'[r][s].sent :
            i > 1 =>
              /\ streams'[r][s].sent[i].item.type = "function_call_output"
              /\ streams'[r][s].sent[i].request \in DOMAIN streams'[r][s].calls
    ]_vars

\* The only stream there is has received its frames, none of them a
\* function-call request and all of them JSON, and has sent its greeting
\* and nothing else.
C19_Witness ==
  \E r \in Requests :
    /\ \A r2 \in Requests \ {r} : streams[r2] = <<>>
    /\ Len(streams[r]) = 1
    /\ frames = MaxFrames
    /\ streams[r][1].state = "open"
    /\ streams[r][1].log = {"opened"}
    /\ streams[r][1].calls = <<>>
    /\ streams[r][1].sent = <<InitialGreetingEvent>>

\* C20: a request whose verified event is of another type than
\* realtime.call.incoming is answered 200, once, with no accept request
\* sent and no stream scheduled for it.
C20_OtherEventsAcknowledged ==
  \A r \in Requests :
    (event[r] # NoEvent /\ ~Incoming(r)) =>
      /\ Len(responses[r]) = 1
      /\ responses[r][1].status = 200
      /\ acceptRequests[r] = <<>>
      /\ acceptResp[r] = NoResponse
      /\ NoStreamFor(r)

\* A call-ended event and an event of unknown type, both acknowledged.
C20_Witness ==
  \E r1, r2 \in Requests :
    /\ event[r1].type = "realtime.call.ended"
    /\ event[r2].type = "unknown.event"
    /\ pc[r1] = "done" /\ pc[r2] = "done"
    /\ responses[r1] # <<>> /\ responses[r2] # <<>>

\* C21: a request whose handler caught an error that is not a signature
\* failure (unwrap failing otherwise, or the accept request failing in
\* transport) is answered 500 'Server error'.  (Stated for the calls that
\* have an identifier.)
C21_OtherExceptionsAnswered500 ==
  \A r \in Requests :
    (/\ thrown[r] # NoError
     /\ thrown[r] \notin SignatureErrors
     /\ Incoming(r) => HasCallId(r)) =>
      /\ Len(responses[r]) = 1
      /\ responses[r][1].status = 500
      /\ responses[r][1].body = "Server error"

\* The response of a successfully accepted call.
AcceptedResponse ==
  [status |-> 200, body |-> "OK",
   headers |-> {<<"Authorization", "Bearer sk-test">>}]

\* C22: from the step that arms the connect timer of a request on, its 200
\* response has been sent (so before the connection can be initiated);
\* no step that creates or changes a stream of the request touches its
\* responses or the position of its handler; and a response once sent is
\* never changed.
C22_ResponseIndependentOfStream ==
  [][\A r \in Requests :
       /\ timers'[r] # <<>> => responses'[r] = <<AcceptedResponse>>
       /\ streams'[r] # streams[r] =>
            /\ responses[r] = <<AcceptedResponse>>
            /\ responses'[r] = responses[r]
            /\ pc[r] = "done" /\ pc'[r] = "done"
       /\ responses[r] # <<>> => responses'[r] = responses[r]
    ]_vars

\* A request answered 200 whose stream failed to connect and closed
\* without ever opening.
C22_Witness ==
  \E r \in Requests :
    /\ responses[r] = <<AcceptedResponse>>
    /\ Len(streams[r]) = 1
    /\ streams[r][1].state = "closed"
    /\ streams[r][1].log = {"error", "closed"}

\* C23: every 200 response to an incoming-call event carries the header
\* Authorization: Bearer <API key>, and every response with a 4xx or 5xx
\* status carries no header at all.
C23_AuthorizationHeaderOnlyOnAccepted ==
  \A r \in Requests : \A i \in DOMAIN responses[r] :
    /\ (Incoming(r) /\ responses[r][i].status = 200) =>
         /\ acceptResp[r].ok
         /\ responses[r][i].headers = {<<"Authorization", "Bearer sk-test">>}
    /\ responses[r][i].status >= 400 => responses[r][i].headers = {}

\* One call accepted and answered 200, one whose accept was refused and
\* answered with an error status.
C23_Witness ==
  \E r1, r2 \in Requests :
    /\ Incoming(r1) /\ Len(responses[r1]) = 1 /\ responses[r1][1].status = 200
    /\ AcceptRefused(r2) /\ Len(responses[r2]) = 1 /\ responses[r2][1].status >= 400

\* C27: when the webhook of a call is delivered again after the stream of
\* that call has closed, no stream is opened for the later request.
\* (Checked under ReplaySpec, where a later request arrives only after the
\* stream of the one before it has closed.)
C27_ReplayDoesNotResurrect ==
  \A r1, r2 \in Requests :
    (/\ r1 < r2
     /\ HasCallId(r1) /\ HasCallId(r2)
     /\ event[r1].call_id = event[r2].call_id) =>
      /\ streams[r2] = <<>>
      /\ timers[r2] = <<>>

\* C28: a step changes at most one stream; a step that sends a result
\* sends it on the stream whose call it answers; and a step of one stream
\* (or of one request's handler) leaves every stream of every other
\* request as it was.
C28_StreamsIndependent ==
  [][\A r1 \in Requests : \A s1 \in DOMAIN streams[r1] :
       streams'[r1][s1] # streams[r1][s1] =>
         /\ \A r2 \in Requests : \A s2 \in DOMAIN streams[r2] :
              <<r2, s2>> # <<r1, s1>> => streams'[r2][s2] = streams[r2][s2]
         /\ \A i \in DOMAIN streams'[r1][s1].sent :
              i > Len(streams[r1][s1].sent) =>
                \/ streams'[r1][s1].sent[i] = InitialGreetingEvent
                \/ /\ streams'[r1][s1].sent[i].request \in DOMAIN streams[r1][s1].calls
                      \cup DOMAIN streams'[r1][s1].calls
                   /\ Carries(streams'[r1][s1].calls[streams'[r1][s1].sent[i].request].item,
                              streams'[r1][s1].sent[i].item.call_id)
    ]_vars

\* Two calls with a stream each: one open with a request answered, the
\* other closed after an error with a call still pending.
C28_Witness ==
  \E r1, r2 \in Requests :
    /\ r1 # r2
    /\ Len(streams[r1]) = 1 /\ Len(streams[r2]) = 1
    /\ streams[r1][1].state = "open"
    /\ Outputs(streams[r1][1]) # {}
    /\ streams[r2][1].state = "closed"
    /\ "error" \in streams[r2][1].log
    /\ streams[r2][1].pending # {}

\* C29: every connect timer is armed with a delay that is not zero, of
\* about one second.  (Stated for the calls that have an identifier.)
C29_ConnectDelayAboutOneSecond ==
  \A r \in Requests : \A i \in DOMAIN timers[r] :
    HasCallId(r) =>
      /\ timers[r][i].delay > 0
      /\ timers[r][i].delay = 1000

\* A request of the variant model was handled by one of the given programs,
\* its call had an identifier and its accept request succeeded.
VAccepted(r, programs) ==
  /\ vpc[r].program \in programs
  /\ vpc[r].at = "done"
  /\ vcallId[r] = "a/b c"
  /\ vaccept[r].ok

\* C24: in src/server.js and in part_002, after an accept response with
\* neither ws_url nor client_secret, the one connect timer of the request,
\* and the stream it creates, are for the default endpoint with the
\* URL-encoded call identifier and the static API key.
C24_DefaultEndpointAndStaticKey ==
  \A r \in Requests :
    (/\ VAccepted(r, {"server.js", "part_002"})
     /\ vaccept[r].data.ws_url = Undefined
     /\ vaccept[r].data.secret = Undefined) =>
      /\ Len(vtimers[r]) = 1
      /\ vtimers[r][1].uri = "wss://api.openai.com/v1/realtime?call_id=a%2Fb%20c"
      /\ vtimers[r][1].token = "sk-test"
      /\ \A s \in DOMAIN vstreams[r] :
           /\ vstreams[r][s].uri = "wss://api.openai.com/v1/realtime?call_id=a%2Fb%20c"
           /\ vstreams[r][s].authorization = "Bearer sk-test"

\* A request handled by src/server.js and one handled by part_002, both
\* with an open stream after an accept response with neither field.
C24_Witness ==
  \E r1, r2 \in Requests :
    /\ VAccepted(r1, {"server.js"}) /\ VAccepted(r2, {"part_002"})
    /\ vaccept[r2].data = [ws_url |-> Undefined, secret |-> Undefined]
    /\ Len(vstreams[r1]) = 1 /\ vstreams[r1][1].state = "open"
    /\ Len(vstreams[r2]) = 1 /\ vstreams[r2][1].state = "open"

\* C25: in part_002 and part_006, after an accept response with both
\* ws_url and client_secret.value, the one connect timer of the request,
\* and the stream it creates, are for that ws_url with that secret.
C25_EphemeralEndpointAndSecret ==
  \A r \in Requests :
    (/\ VAccepted(r, {"part_002", "part_006"})
     /\ vaccept[r].data.ws_url = "wss://sip.example/v1/call"
     /\ vaccept[r].data.secret = "ek_123") =>
      /\ Len(vtimers[r]) = 1
      /\ vtimers[r][1].uri = "wss://sip.example/v1/call"
      /\ vtimers[r][1].token = "ek_123"
      /\ \A s \in DOMAIN vstreams[r] :
           /\ vstreams[r][s].uri = "wss://sip.example/v1/call"
           /\ vstreams[r][s].authorization = "Bearer ek_123"

\* A request handled by part_002 and one handled by part_006, both with an
\* open stream to the ws_url they were given.
C25_Witness ==
  \E r1, r2 \in Requests :
    /\ VAccepted(r1, {"part_002"}) /\ VAccepted(r2, {"part_006"})
    /\ Len(vstreams[r1]) = 1 /\ vstreams[r1][1].state = "open"
    /\ vstreams[r1][1].authorization = "Bearer ek_123"
    /\ Len(vstreams[r2]) = 1 /\ vstreams[r2][1].state = "open"
    /\ vstreams[r2][1].authorization = "Bearer ek_123"
    /\ vstreams[r2][1].uri = "wss://sip.example/v1/call"

\* C26: in part_003 an accepted call is answered 200 with the
\* Authorization header; with a ws_url in the accept response its one
\* timer and stream are for that ws_url, and without one no timer is armed,
\* no stream is created and so no greeting is sent.
C26_ControlWsOnlyWithWsUrl ==
  \A r \in Requests :
    VAccepted(r, {"part_003"}) =>
      /\ vres[r] = <<[status |-> 200, body |-> "OK",
                      headers |-> {<<"Authorization", "Bearer sk-test">>}]>>
      /\ IF vaccept[r].data.ws_url \in {Undefined, ""}
           THEN vtimers[r] = <<>> /\ vstreams[r] = <<>>
           ELSE /\ Len(vtimers[r]) = 1
                /\ vtimers[r][1].uri = vaccept[r].data.ws_url
                /\ \A s \in DOMAIN vstreams[r] :
                     vstreams[r][s].uri = vaccept[r].data.ws_url

\* Two calls handled by part_003: one accepted without ws_url, answered
\* 200; one accepted with ws_url, whose stream has sent the greeting.
C26_Witness ==
  \E r1, r2 \in Requests :
    /\ VAccepted(r1, {"part_003"}) /\ VAccepted(r2, {"part_003"})
    /\ vaccept[r1].data.ws_url = Undefined
    /\ Len(vres[r1]) = 1
    /\ Len(vstreams[r2]) = 1
    /\ vstreams[r2][1].sent = <<InitialGreetingEvent>>


(***************************************************************************)
(* src/unnamed/part_004: the tools array of the accept payload.  The       *)
(* module builds it once, when it is loaded, from process.env.  A key an   *)
(* object does not carry is modelled as a field equal to Undefined:        *)
(* JSON.stringify leaves both out of the payload.                          *)
(***************************************************************************)

\* text.split(',').map((d) => d.trim()).filter(Boolean) on the lists the
\* settings are drawn from: pieces that are empty after trimming are dropped.
SplitTrimFilter(text) ==
  CASE text = "a.com, b.org" -> <<"a.com", "b.org">>
    [] text = "search, fetch" -> <<"search", "fetch">>
    [] text = " , " -> <<>>
    [] OTHER -> <<text>>

\* The texts JSON.parse accepts, among those the settings are drawn from.
ParsableJson == {"{\"never\":{}}"}

\* A tool object that carries no require_approval key.
NoApproval == [parsed |-> FALSE, value |-> Undefined]

\* A builder that leaves require_approval out when JSON.parse throws.
ParseOrRaw_Omit(text) ==
  IF text \in ParsableJson
    THEN [parsed |-> TRUE, value |-> text]
    ELSE NoApproval

\* try { JSON.parse(text) } catch { text }: the parsed value, or the raw
\* string when JSON.parse throws.
ParseOrRaw(text) ==
  IF text \in ParsableJson
    THEN [parsed |-> TRUE, value |-> text]
    ELSE [parsed |-> FALSE, value |-> text]

WebEnvs ==
  { w \in [WEB_SEARCH_ENABLED : {Undefined, "true", "TRUE", "false"},
           WEB_SEARCH_ALLOWED_DOMAINS : {Undefined, " , ", "a.com, b.org"},
           WEB_SEARCH_COUNTRY : {Undefined, "US"},
           WEB_SEARCH_CITY : {Undefined, "Honolulu"},
           WEB_SEARCH_REGION : {Undefined, "Hawaii"},
           WEB_SEARCH_TIMEZONE : {Undefined, "Pacific/Honolulu"}] :
      (w.WEB_SEARCH_REGION = Undefined) <=> (w.WEB_SEARCH_CITY = Undefined) }

McpEnvs ==
  [MCP_SERVER_URL : {Undefined, "", "https://mcp.example/sse"},
   MCP_SERVER_LABEL : {Undefined, "docs"},
   MCP_AUTHORIZATION : {Undefined, "tok"},
   MCP_REQUIRE_APPROVAL : {Undefined, "never", "{\"never\":", "{\"never\":{}}"},
   MCP_ALLOWED_TOOLS : {Undefined, "search, fetch"}]

ConnEnvs ==
  [CONNECTOR_ID : {Undefined, "", "connector_gmail"},
   CONNECTOR_LABEL : {Undefined, "mail"},
   CONNECTOR_AUTHORIZATION : {Undefined, "tok"},
   CONNECTOR_REQUIRE_APPROVAL : {Undefined, "never", "{\"never\":{}}"},
   CONNECTOR_ALLOWED_TOOLS : {Undefined, "search, fetch"}]

functionTools ==
  << [type |-> "function", name |-> "get_current_time"],
     [type |-> "function", name |-> "get_random_number"] >>

\* webTool.user_location: only the settings that are truthy are carried.
UserLocation(e) ==
  IF \/ Truthy(e.WEB_SEARCH_COUNTRY) \/ Truthy(e.WEB_SEARCH_CITY)
     \/ Truthy(e.WEB_SEARCH_REGION) \/ Truthy(e.WEB_SEARCH_TIMEZONE)
    THEN [type |-> "approximate",
          country |-> IF Truthy(e.WEB_SEARCH_COUNTRY)
                        THEN e.WEB_SEARCH_COUNTRY ELSE Undefined,
          city |-> IF Truthy(e.WEB_SEARCH_CITY)
                     THEN e.WEB_SEARCH_CITY ELSE Undefined,
          region |-> IF Truthy(e.WEB_SEARCH_REGION)
                       THEN e.WEB_SEARCH_REGION ELSE Undefined,
          timezone |-> IF Truthy(e.WEB_SEARCH_TIMEZONE)
                         THEN e.WEB_SEARCH_TIMEZONE ELSE Undefined]
    ELSE Undefined

\* webTool.filters: set only when the list has an entry left after trimming.
Filters(e) ==
  IF /\ Truthy(e.WEB_SEARCH_ALLOWED_DOMAINS)
     /\ Len(SplitTrimFilter(e.WEB_SEARCH_ALLOWED_DOMAINS)) > 0
    THEN [allowed_domains |-> SplitTrimFilter(e.WEB_SEARCH_ALLOWED_DOMAINS)]
    ELSE Undefined


\* A builder that compares WEB_SEARCH_ENABLED with 'true' letter for letter.
WebSearchEnabled_Exact(e) == e.WEB_SEARCH_ENABLED = "true"

WebSearchEnabled(e) ==
  /\ e.WEB_SEARCH_ENABLED # Undefined
  /\ ToLowerCase(e.WEB_SEARCH_ENABLED) = "true"

WebTools(e) ==
  IF WebSearchEnabled(e)
    THEN << [type |-> "web_search",
             filters |-> Filters(e),
             user_location |-> UserLocation(e)] >>
    ELSE <<>>

RequireApproval(text) ==
  IF Truthy(text) THEN ParseOrRaw(text) ELSE NoApproval

AllowedTools(text) ==
  IF Truthy(text) THEN SplitTrimFilter(text) ELSE Undefined

McpTools(e) ==
  IF Truthy(e.MCP_SERVER_URL)
    THEN << [type |-> "mcp",
             server_label |-> IF Truthy(e.MCP_SERVER_LABEL)
                                THEN e.MCP_SERVER_LABEL ELSE "remote_mcp",
             server_url |-> e.MCP_SERVER_URL,
             connector_id |-> Undefined,
             authorization |-> IF Truthy(e.MCP_AUTHORIZATION)
                                 THEN e.MCP_AUTHORIZATION ELSE Undefined,
             require_approval |-> RequireApproval(e.MCP_REQUIRE_APPROVAL),
             allowed_tools |-> AllowedTools(e.MCP_ALLOWED_TOOLS)] >>
    ELSE <<>>

ConnectorTools(e) ==
  IF Truthy(e.CONNECTOR_ID)
    THEN << [type |-> "mcp",
             server_label |-> IF Truthy(e.CONNECTOR_LABEL)
                                THEN e.CONNECTOR_LABEL ELSE e.CONNECTOR_ID,
             server_url |-> Undefined,
             connector_id |-> e.CONNECTOR_ID,
             authorization |-> IF Truthy(e.CONNECTOR_AUTHORIZATION)
                                 THEN e.CONNECTOR_AUTHORIZATION ELSE Undefined,
             require_approval |-> RequireApproval(e.CONNECTOR_REQUIRE_APPROVAL),
             allowed_tools |-> AllowedTools(e.CONNECTOR_ALLOWED_TOOLS)] >>
    ELSE <<>>

additionalTools(e) == WebTools(e) \o McpTools(e) \o ConnectorTools(e)

\* const tools = [...functionTools, ...additionalTools]
Tools(e) == functionTools \o additionalTools(e)

\* The module is loaded, once, with some environment and builds tools.
LoadModule ==
  /\ tools = <<>>
  /\ \E w \in WebEnvs, m \in McpEnvs, c \in ConnEnvs :
       /\ env' = w @@ m @@ c
       /\ tools' = Tools(w @@ m @@ c)
  /\ UNCHANGED <<serverVars, variantVars>>

BuilderNext ==
  \/ LoadModule

BuilderSpec == Init /\ [][BuilderNext]_vars


\* ------------------------------------------------ claims on the tools array
Loaded == tools # <<>>

ToolIndexes == 1..Len(tools)

HasFunctionTools ==
  /\ Len(tools) >= Len(functionTools)
  /\ SubSeq(tools, 1, Len(functionTools)) = functionTools

WebSearchTools == {i \in ToolIndexes : tools[i].type = "web_search"}

RemoteMcpTools ==
  {i \in ToolIndexes : tools[i].type = "mcp" /\ tools[i].server_url # Undefined}

ConnectorToolsBuilt ==
  {i \in ToolIndexes : tools[i].type = "mcp" /\ tools[i].connector_id # Undefined}

OptionalTools == WebSearchTools \cup RemoteMcpTools \cup ConnectorToolsBuilt

\* C30 (as stated): once built, the tool list starts with the local function
\* tools; it holds a web search tool if and only if WEB_SEARCH_ENABLED equals
\* 'true', a remote MCP tool if and only if MCP_SERVER_URL is set, a connector
\* tool if and only if CONNECTOR_ID is set; and nothing else.
C30_ToolsGatedByFlags ==
  Loaded =>
    /\ HasFunctionTools
    /\ (WebSearchTools # {}) <=> (env.WEB_SEARCH_ENABLED = "true")
    /\ (RemoteMcpTools # {}) <=> Truthy(env.MCP_SERVER_URL)
    /\ (ConnectorToolsBuilt # {}) <=> Truthy(env.CONNECTOR_ID)
    /\ Len(tools) = Len(functionTools) + Cardinality(OptionalTools)

\* C30 (amended): as above, but the web search tool is present if and only if
\* WEB_SEARCH_ENABLED equals 'true' in any letter case ('TRUE' enables it
\* too); each optional tool appears at most once.
C30_ToolsGatedByFlagsAnyCase ==
  Loaded =>
    /\ HasFunctionTools
    /\ (WebSearchTools # {}) <=>
         (env.WEB_SEARCH_ENABLED # Undefined
            /\ ToLowerCase(env.WEB_SEARCH_ENABLED) = "true")
    /\ (RemoteMcpTools # {}) <=> Truthy(env.MCP_SERVER_URL)
    /\ (ConnectorToolsBuilt # {}) <=> Truthy(env.CONNECTOR_ID)
    /\ Cardinality(WebSearchTools) <= 1
    /\ Cardinality(RemoteMcpTools) <= 1
    /\ Cardinality(ConnectorToolsBuilt) <= 1
    /\ Len(tools) = Len(functionTools) + Cardinality(OptionalTools)

\* Built with WEB_SEARCH_ENABLED=TRUE, an empty MCP_SERVER_URL and a
\* connector id: web search and the connector are in the list, no MCP tool.
C30_Witness ==
  /\ Loaded
  /\ env.WEB_SEARCH_ENABLED = "TRUE"
  /\ env.MCP_SERVER_URL = ""
  /\ env.CONNECTOR_ID = "connector_gmail"
  /\ Len(tools) = 4
  /\ tools[3].type = "web_search"
  /\ tools[4].connector_id = "connector_gmail"


\* The remote MCP tool and the connector tool of the built list, if any.
BuiltApprovals ==
  { <<env.MCP_REQUIRE_APPROVAL, tools[i].require_approval>> :
      i \in RemoteMcpTools }
  \cup
  { <<env.CONNECTOR_REQUIRE_APPROVAL, tools[i].require_approval>> :
      i \in ConnectorToolsBuilt }

MalformedSetting(text) == Truthy(text) /\ text \notin ParsableJson

\* C31 (as stated): a *_REQUIRE_APPROVAL value that is not parseable JSON
\* leaves the require_approval field out of the tool definition.
C31_MalformedApprovalOmitted ==
  Loaded =>
    \A a \in BuiltApprovals :
      MalformedSetting(a[1]) => a[2] = NoApproval

\* C31 (amended): a *_REQUIRE_APPROVAL value that is not parseable JSON is
\* kept as the raw string in require_approval; a parseable one is carried
\* parsed, an unset or empty one leaves the field out; the tool and the
\* function tools are built all the same.
C31_MalformedApprovalKeptRaw ==
  Loaded =>
    /\ HasFunctionTools
    /\ (RemoteMcpTools # {}) <=> Truthy(env.MCP_SERVER_URL)
    /\ (ConnectorToolsBuilt # {}) <=> Truthy(env.CONNECTOR_ID)
    /\ \A a \in BuiltApprovals :
         /\ MalformedSetting(a[1]) => a[2] = [parsed |-> FALSE, value |-> a[1]]
         /\ a[1] \in ParsableJson => a[2] = [parsed |-> TRUE, value |-> a[1]]
         /\ ~Truthy(a[1]) => a[2] = NoApproval

\* Built with MCP_REQUIRE_APPROVAL set to a truncated JSON text: the MCP tool
\* carries that text as its require_approval.
C31_Witness ==
  /\ Loaded
  /\ env.MCP_REQUIRE_APPROVAL = "{\"never\":"
  /\ env.WEB_SEARCH_ENABLED = Undefined
  /\ Len(tools) >= 3
  /\ tools[3].server_url = "https://mcp.example/sse"
  /\ tools[3].require_approval = [parsed |-> FALSE, value |-> "{\"never\":"]


(***************************************************************************)
(* src/server.js with the promises the handler awaits settling: unwrap,    *)
(* fetch and acceptResp.text() each resolve or reject in the end.          *)
(***************************************************************************)
UnwrapSettles(r) ==
  \/ \E ev \in WebhookEvents : UnwrapResolves(r, ev)
  \/ \E err \in SignatureErrors \cup UnwrapOtherErrors : UnwrapThrows(r, err)

FetchSettles(r) ==
  \/ \E resp \in AcceptResponses : FetchResolves(r, resp)
  \/ \E err \in FetchErrors : FetchRejects(r, err)

SettlingSpec ==
  /\ Init
  /\ [][Next]_vars
  /\ \A r \in Requests :
       /\ WF_vars(UnwrapSettles(r))
       /\ WF_vars(FetchSettles(r))
       /\ WF_vars(AcceptTextSettles(r))

\* C32: a request never has two responses, a handler that has returned has
\* sent one, and, unwrap and the accept request settling, every request that
\* arrived is responded to in the end.
C32_ExactlyOneResponse ==
  /\ [](\A r \in Requests :
          /\ Len(responses[r]) <= 1
          /\ pc[r] = "done" => Len(responses[r]) = 1)
  /\ \A r \in Requests : (pc[r] # "idle") ~> (Len(responses[r]) = 1)

\* Both handlers have returned, one through the refused accept and one
\* through the catch block after a response-less await of fetch; each
\* request has its one response.
C32_Witness ==
  \E r1, r2 \in Requests :
    /\ r1 # r2
    /\ pc[r1] = "done" /\ pc[r2] = "done"
    /\ AcceptRefused(r1)
    /\ AcceptTransportFailed(r2)
    /\ Len(responses[r1]) = 1
    /\ Len(responses[r2]) = 1


LiveFor(uri) ==
  LET LiveTimers(r) ==
        { i \in DOMAIN timers[r] : ~timers[r][i].fired /\ timers[r][i].uri = uri }
      LiveStreams(r) ==
        { t \in DOMAIN streams[r] :
            /\ streams[r][t].state \in {"connecting", "open"}
            /\ streams[r][t].uri = uri }
  IN  UNION { ({<<r, "timer">>} \X LiveTimers(r))
                \cup ({<<r, "stream">>} \X LiveStreams(r)) : r \in Requests }

\* C34: for every call identifier at most one stream is open, connecting or
\* scheduled to connect at any time, also when two incoming-call webhooks
\* with that identifier are in the handler together.
C34_AtMostOneStreamPerCall ==
  \A c \in CallIds : Cardinality(LiveFor(WssUrl(c))) <= 1


\* C35: when fetch of the accept request rejects, the handler responds
\* 500 'Server error' without the Authorization header, and no stream is
\* scheduled or opened for the request.
C35_TransportFailureAnswered500 ==
  \A r \in Requests :
    AcceptTransportFailed(r) =>
      /\ responses[r] = <<Response(500, "Server error", {})>>
      /\ resHeaders[r] = {}
      /\ NoStreamFor(r)


\* C36: in part_002 and part_006, after an ok accept response, the endpoint
\* of the one connect timer (and of its stream) is ws_url when the response
\* has a non-empty one and the default endpoint of the call otherwise, and
\* its credential is client_secret.value when the response has a non-empty
\* one and the static API key otherwise, each whatever the other is.
C36_EndpointAndCredentialIndependent ==
  \A r \in Requests :
    VAccepted(r, {"part_002", "part_006"}) =>
      LET data == vaccept[r].data
          uri == IF data.ws_url = "wss://sip.example/v1/call"
                   THEN "wss://sip.example/v1/call"
                   ELSE "wss://api.openai.com/v1/realtime?call_id=a%2Fb%20c"
          token == IF data.secret = "ek_123" THEN "ek_123" ELSE "sk-test"
      IN  /\ Len(vtimers[r]) = 1
          /\ vtimers[r][1].uri = uri
          /\ vtimers[r][1].token = token
          /\ \A s \in DOMAIN vstreams[r] :
               /\ vstreams[r][s].uri = uri
               /\ vstreams[r][s].authorization = "Bearer " \o token

\* The two mixed pairings: part_002 has an open stream to the ws_url it was
\* given with the static API key, part_006 one to the default endpoint with
\* the secret it was given.
C36_Witness ==
  \E r1, r2 \in Requests :
    /\ VAccepted(r1, {"part_002"}) /\ VAccepted(r2, {"part_006"})
    /\ vaccept[r1].data = [ws_url |-> "wss://sip.example/v1/call", secret |-> Undefined]
    /\ vaccept[r2].data = [ws_url |-> Undefined, secret |-> "ek_123"]
    /\ Len(vstreams[r1]) = 1 /\ vstreams[r1][1].state = "open"
    /\ vstreams[r1][1].uri = "wss://sip.example/v1/call"
    /\ vstreams[r1][1].authorization = "Bearer sk-test"
    /\ Len(vstreams[r2]) = 1 /\ vstreams[r2][1].state = "open"
    /\ vstreams[r2][1].uri = "wss://api.openai.com/v1/realtime?call_id=a%2Fb%20c"
    /\ vstreams[r2][1].authorization = "Bearer ek_123"


(***************************************************************************)
(* src/server.js: the tools of callAcceptPayload.                          *)
(***************************************************************************)
ServerFunctionTools ==
  << [type |-> "function", name |-> "get_current_time"],
     [type |-> "function", name |-> "get_random_number"] >>

builtinTools == << [type |-> "web_search", name |-> "search"] >>

\* const tools = [...functionTools, ...builtinTools]
CallAcceptTools == ServerFunctionTools \o builtinTools

\* The names of the tools of type 'function' the accept payload declares.
DeclaredFunctionNames ==
  { CallAcceptTools[i].name :
      i \in { j \in DOMAIN CallAcceptTools : CallAcceptTools[j].type = "function" } }

\* The outputs that report a missing implementation, for the names requests
\* can carry.
NotImplementedOutputs ==
  { JSONStringify(NotImplementedResult(item.name)) : item \in FunctionCallItems }

\* C37: every declared tool of type 'function' has an implementation, and on
\* no stream is a function call naming a declared function tool answered
\* with a 'not implemented' result.
C37_DeclaredToolsImplemented ==
  /\ DeclaredFunctionNames \subseteq FunctionImplementations
  /\ \A r \in Requests : \A s \in DOMAIN streams[r] :
       \A k \in DOMAIN streams[r][s].calls :
         streams[r][s].calls[k].item.name \in DeclaredFunctionNames =>
           \A i \in ResultsFor(streams[r][s], k) :
             streams[r][s].sent[i].item.output \notin NotImplementedOutputs

\* A stream answered a call of get_random_number with a number and a call
\* of unknown_tool, which is not declared, with 'not implemented'.
C37_Witness ==
  \E r \in Requests : \E s \in DOMAIN streams[r] :
    \E k1, k2 \in DOMAIN streams[r][s].calls :
      /\ streams[r][s].calls[k1].item.name = "get_random_number"
      /\ \E i \in ResultsFor(streams[r][s], k1) :
           streams[r][s].sent[i].item.output = "{\"random_number\":100}"
      /\ streams[r][s].calls[k2].item.name = "unknown_tool"
      /\ \E i \in ResultsFor(streams[r][s], k2) :
           streams[r][s].sent[i].item.output \in NotImplementedOutputs

====
